---- MODULE Spec2Model ----
(***************************************************************************)
(* The object pool of this repository (class Nage, and its earlier form    *)
(* class Pool of src/index.ts, which is Nage without initialSize and with  *)
(* clear() in place of reset()): construction, generate, reserve, release  *)
(* and reset, for two pool instances P and Q living in one process.        *)
(***************************************************************************)
EXTENDS Integers, Sequences, FiniteSets, TLC

(* ------------------------------- bounds -------------------------------- *)

\* number of objects the default factory may allocate in one behaviour
MaxObjects == 3
\* largest initialSize option a pool is constructed with
MaxInitialSize == 2
\* number of constructor calls in one behaviour (failed ones included)
MaxConstructs == 3
\* number of calls of P that can be inside their hook at one time
MaxDepth == 2
\* number of objects reserve() may manufacture while hooks call back
MaxHookObjects == 2

(* ------------------------------ universe ------------------------------- *)

\* the two pool instances of the scenario
Pools == {"P", "Q"}

\* objects allocated by a factory that returns a new object per call
FreshObjs == 1..MaxObjects
\* the one object a user factory `() => shared` returns on every call
SharedObj == MaxObjects + 1
\* an object literal the caller built itself: no pool ever generated it
ForeignObj == MaxObjects + 2
Objs == FreshObjs \cup {SharedObj, ForeignObj}

\* values of (Math.random() * 1e9) >>> 0; names only compare them for
\* equality, so the first pool's draw is called 0 and a later draw is
\* either that value again or another one, called 1
Randoms == {0, 1}

\* WeakMap.get of a key that was never set
Undefined == <<>>

\* values the `create` option is given
CreateOptions == {"undefined", "shared", "flaky", "notFunction"}
\* values the `onRelease` / `onReserve` options are given
HookOptions == {"undefined", "function", "truthy", "falsy"}
\* values the `initialSize` option is given: left out, or <<n>> for n
InitialSizeOptions == {<<>>} \cup {<<n>> : n \in 0..MaxInitialSize}

Range(s) == {s[i] : i \in 1..Len(s)}

VARIABLES
  DEV,        \* the build mode: TRUE unless NODE_ENV is 'production'
  timeBasis,  \* the module-level counter that goes into pool names
  heap,       \* number of objects allocated so far by fresh factories
  pools,      \* the pool instances: their fields
  last,       \* the latest operation: what was called and what it did
  pair,       \* whether the latest two operations were a pair on P:
              \* release(reserve()), or a release and then a reserve
  made,       \* per pool, the objects its generate() has registered
  observed,   \* the pools the observer follows: P, or none
  dropped,    \* an entry that was in P's free list when P.reset() was
              \* called, picked by the observer (at most one at a time)
  back,       \* whether that entry was released to P again, or returned
              \* again by P's factory, after the reset that dropped it
  prepop,     \* the entries P's constructor created, in creation order,
              \* and those reserve() returned since, in call order, while
              \* nothing but reserve() was called on P
  lifo,       \* progress of P through reserve a, reserve b, release a,
              \* release b, reserve, reserve from its construction
  frames,     \* the calls of P that are inside their hook, outermost
              \* first: release(entry) before its push, or reserve()
              \* before it returns entry
  ledger      \* of P's entries: those callers hold (reserve() returned
              \* them and their holder has not released them since),
              \* those the constructor or reset put on the free list,
              \* those some release accepted, and whether every release
              \* so far was made by a caller holding the entry

vars == <<DEV, timeBasis, heap, pools, last, pair, made, observed,
          dropped, back,
          prepop, lifo, frames, ledger>>

(* --------------------------- option values ----------------------------- *)

\* typeof v === 'function'
IsFunction(v) == v \in {"function", "getEmptyObject", "shared", "flaky"}

\* JavaScript truthiness of an option value: if (onRelease) ...
Truthy(v) == v \in {"function", "truthy"}

\* the destructuring default: create = getEmptyObject
DefaultCreate(v) == IF v = "undefined" THEN "getEmptyObject" ELSE v

\* the destructuring default: initialSize = 0
DefaultInitialSize(v) == IF v = <<>> THEN 0 ELSE v[1]

\* the name, had it left the counter out: `nage_${random}`
PoolNameOfRandom(basis, random) == <<0, random>>

\* the pool's name: `nage_${timeBasis++}_${(Math.random() * 1e9) >>> 0}`,
\* two decimal numerals around a "_": equal strings exactly for equal pairs
PoolName(basis, random) == <<basis, random>>

\* an empty WeakMap
EmptyWeakMap == [o \in Objs |-> Undefined]

\* a pool slot no constructor has filled yet
NoPool ==
  [built |-> FALSE, name |-> Undefined, initialSize |-> 0,
   create |-> "getEmptyObject", onRelease |-> FALSE, onReserve |-> FALSE,
   stack |-> <<>>, entries |-> EmptyWeakMap]

\* the messages of the errors the pool throws
CreateError == "create must be a function"
OnReleaseError == "onRelease must be a function"
OnReserveError == "onReserve must be a function"
OwnershipError == "Object passed is not part of this pool."
\* an exception of the user's create function, passed on unchanged
FactoryError == "create threw"

(* ------------------------------ the factory ---------------------------- *)

\* what n successive calls of create() can do when h objects are allocated:
\* the objects returned, in call order, and whether the next call threw.
\* getEmptyObject returns a new object each time, `shared` the same object
\* each time, `flaky` a new object or an exception.
FactoryRuns(create, n, h) ==
  CASE create = "getEmptyObject" ->
         IF h + n <= MaxObjects
         THEN {[objs |-> [i \in 1..n |-> h + i], threw |-> FALSE]}
         ELSE {}
    [] create = "shared" ->
         {[objs |-> [i \in 1..n |-> SharedObj], threw |-> FALSE]}
    [] create = "flaky" ->
         {[objs |-> [i \in 1..k |-> h + i], threw |-> k < n] :
            k \in {j \in 0..n : h + j <= MaxObjects}}

\* number of calls of create() in a run
Calls(run) == Len(run.objs) + (IF run.threw THEN 1 ELSE 0)

\* objects a run took from the allocator
Allocated(create, run) == IF create = "shared" THEN 0 ELSE Len(run.objs)

(* ---------------------------- array helpers ---------------------------- *)

\* Array.prototype.unshift, had release used it
Unshift(stack, entry) == <<entry>> \o stack

\* Array.prototype.push
Push(stack, entry) == Append(stack, entry)

\* Array.prototype.shift, had reserve used it
Shift(stack) == [entry |-> stack[1], stack |-> Tail(stack)]

\* stack[stack.length - 1], had reserve read the top without removing it
Peek(stack) == [entry |-> stack[Len(stack)], stack |-> stack]

\* Array.prototype.pop on a non-empty array: the element and what is left
Pop(stack) ==
  [entry |-> stack[Len(stack)], stack |-> SubSeq(stack, 1, Len(stack) - 1)]

\* stack.indexOf(entry, 1), had the scan started one element late
IndexOfFromOne(stack, entry) ==
  IF \E i \in 2..Len(stack) : stack[i] = entry
  THEN (CHOOSE i \in 2..Len(stack) :
          /\ stack[i] = entry
          /\ \A j \in 2..(i - 1) : stack[j] # entry) - 1
  ELSE -1

\* Array.prototype.indexOf: the first index (from 0) holding entry, or -1
IndexOf(stack, entry) ==
  IF \E i \in 1..Len(stack) : stack[i] = entry
  THEN (CHOOSE i \in 1..Len(stack) :
          /\ stack[i] = entry
          /\ \A j \in 1..(i - 1) : stack[j] # entry) - 1
  ELSE -1

(* ----------------------------- the methods ----------------------------- *)

\* generate(), had it returned the entry without entries.set
GenerateUnregistered(pl, entry) == pl

\* generate(), once create() has returned entry: entries.set(entry, name)
Generate(pl, entry) == [pl EXCEPT !.entries[entry] = pl.name]

\* the loop, had it used stack.unshift(this.generate())
RECURSIVE PopulateUnshift(_, _)
PopulateUnshift(pl, objs) ==
  IF objs = <<>> THEN pl
  ELSE LET g == Generate(pl, Head(objs))
       IN  PopulateUnshift([g EXCEPT !.stack = <<Head(objs)>> \o g.stack],
                           Tail(objs))

\* the loop, had it pushed every generated entry twice
RECURSIVE PopulateTwice(_, _)
PopulateTwice(pl, objs) ==
  IF objs = <<>> THEN pl
  ELSE LET g == Generate(pl, Head(objs))
       IN  PopulateTwice([g EXCEPT !.stack = Push(Push(g.stack, Head(objs)),
                                                  Head(objs))],
                         Tail(objs))

\* the loop of the constructor and of reset: stack.push(this.generate())
\* for each object the factory returned
RECURSIVE Populate(_, _)
Populate(pl, objs) ==
  IF objs = <<>> THEN pl
  ELSE LET g == Generate(pl, Head(objs))
       IN  Populate([g EXCEPT !.stack = Push(g.stack, Head(objs))], Tail(objs))

\* the guard, had it compared with === instead of !==
PartOfPool(pl, entry) == pl.entries[entry] = pl.name

\* the guard of release: this.entries.get(entry) !== this.name
NotPartOfPool(pl, entry) == pl.entries[entry] # pl.name

\* release(entry), had it pushed without the indexOf test
ReleasedUnchecked(pl, entry) ==
  IF NotPartOfPool(pl, entry)
  THEN [threw |-> TRUE, pool |-> pl, onRelease |-> 0]
  ELSE [threw |-> FALSE,
        pool |-> [pl EXCEPT !.stack = Push(pl.stack, entry)],
        onRelease |-> IF pl.onRelease THEN 1 ELSE 0]

\* release(entry): whether it threw, the pool afterwards, calls of onRelease
Released(pl, entry) ==
  IF NotPartOfPool(pl, entry)
  THEN [threw |-> TRUE, pool |-> pl, onRelease |-> 0]
  ELSE IF IndexOf(pl.stack, entry) = -1
       THEN [threw |-> FALSE,
             pool |-> [pl EXCEPT !.stack = Push(pl.stack, entry)],
             onRelease |-> IF pl.onRelease THEN 1 ELSE 0]
       ELSE [threw |-> FALSE, pool |-> pl, onRelease |-> 0]

\* reserve(), had it read the top entry and left it on the stack
ReservedUnpopped(pl, h) ==
  IF Len(pl.stack) # 0
  THEN {[threw |-> FALSE, ret |-> <<pl.stack[Len(pl.stack)]>>,
         pool |-> pl,
         run |-> [objs |-> <<>>, threw |-> FALSE],
         onReserve |-> IF pl.onReserve THEN 1 ELSE 0]}
  ELSE {[threw |-> run.threw, ret |-> run.objs,
         pool |-> IF run.threw THEN pl ELSE Generate(pl, run.objs[1]),
         run |-> run,
         onReserve |-> IF pl.onReserve /\ ~run.threw THEN 1 ELSE 0] :
          run \in FactoryRuns(pl.create, 1, h)}

\* reserve(), had it tested stack.length > 1
ReservedLate(pl, h) ==
  IF Len(pl.stack) > 1
  THEN {[threw |-> FALSE, ret |-> <<Pop(pl.stack).entry>>,
         pool |-> [pl EXCEPT !.stack = Pop(pl.stack).stack],
         run |-> [objs |-> <<>>, threw |-> FALSE],
         onReserve |-> IF pl.onReserve THEN 1 ELSE 0]}
  ELSE {[threw |-> run.threw, ret |-> run.objs,
         pool |-> IF run.threw THEN pl ELSE Generate(pl, run.objs[1]),
         run |-> run,
         onReserve |-> IF pl.onReserve /\ ~run.threw THEN 1 ELSE 0] :
          run \in FactoryRuns(pl.create, 1, h)}

\* reserve(): stack.length ? stack.pop() : this.generate(), then onReserve
Reserved(pl, h) ==
  IF Len(pl.stack) # 0
  THEN {[threw |-> FALSE, ret |-> <<Pop(pl.stack).entry>>,
         pool |-> [pl EXCEPT !.stack = Pop(pl.stack).stack],
         run |-> [objs |-> <<>>, threw |-> FALSE],
         onReserve |-> IF pl.onReserve THEN 1 ELSE 0]}
  ELSE {[threw |-> run.threw, ret |-> run.objs,
         pool |-> IF run.threw THEN pl ELSE Generate(pl, run.objs[1]),
         run |-> run,
         onReserve |-> IF pl.onReserve /\ ~run.threw THEN 1 ELSE 0] :
          run \in FactoryRuns(pl.create, 1, h)}

\* reset(), had it started from a new WeakMap as the constructor does
ResetNewEntries(pl, h) ==
  {[threw |-> run.threw,
    pool |-> Populate([pl EXCEPT !.stack = <<>>, !.entries = EmptyWeakMap],
                      run.objs),
    run |-> run] : run \in FactoryRuns(pl.create, pl.initialSize, h)}

\* reset(), had it not emptied the stack before the loop
ResetKeepsStack(pl, h) ==
  {[threw |-> run.threw, pool |-> Populate(pl, run.objs), run |-> run] :
     run \in FactoryRuns(pl.create, pl.initialSize, h)}

\* reset(), had it set stack.length = 1 before the loop
ResetKeepsOne(pl, h) ==
  {[threw |-> run.threw,
    pool |-> Populate([pl EXCEPT !.stack = IF pl.stack = <<>> THEN <<>>
                                              ELSE <<pl.stack[1]>>],
                      run.objs),
    run |-> run] : run \in FactoryRuns(pl.create, pl.initialSize, h)}

\* reset(): stack.length = 0, then the prepopulation loop
ResetDone(pl, h) ==
  {[threw |-> run.threw,
    pool |-> Populate([pl EXCEPT !.stack = <<>>], run.objs),
    run |-> run] : run \in FactoryRuns(pl.create, pl.initialSize, h)}

\* the fields the constructor sets before it validates anything
NewPool(opts, name) ==
  [NoPool EXCEPT !.name = name,
                 !.initialSize = DefaultInitialSize(opts.initialSize)]

\* the hook the constructor stores for an option value
StoredHook(v) == Truthy(v) /\ IsFunction(v)

\* the constructor rejects an option value: truthy, no function, and DEV
RejectedHook(v, dev) == Truthy(v) /\ ~IsFunction(v) /\ dev

\* new Nage(opts): the error thrown ("none" if none), and the pool built
Constructed(opts, name, dev, h) ==
  LET noRun == [objs |-> <<>>, threw |-> FALSE]
      fresh == NewPool(opts, name)
      create == DefaultCreate(opts.create)
      ready == [fresh EXCEPT !.built = TRUE, !.create = create,
                             !.onRelease = StoredHook(opts.onRelease),
                             !.onReserve = StoredHook(opts.onReserve)]
  IN  IF ~IsFunction(create)
      THEN {[error |-> CreateError, pool |-> fresh,
             run |-> noRun]}
      ELSE IF RejectedHook(opts.onRelease, dev)
      THEN {[error |-> OnReleaseError, pool |-> fresh,
             run |-> noRun]}
      ELSE IF RejectedHook(opts.onReserve, dev)
      THEN {[error |-> OnReserveError, pool |-> fresh,
             run |-> noRun]}
      ELSE {[error |-> IF run.threw THEN FactoryError ELSE "none",
             pool |-> Populate(ready, run.objs),
             run |-> run] : run \in FactoryRuns(create, fresh.initialSize, h)}

(* ------------------------- records of the run -------------------------- *)

\* the option objects a scenario with one pool passes to the constructor
Options ==
  [create : CreateOptions, initialSize : InitialSizeOptions,
   onRelease : HookOptions, onReserve : HookOptions]

\* the option objects a scenario with two pools passes to the constructor
FewOptions ==
  [create : {"undefined", "shared"}, initialSize : {<<>>, <<1>>},
   onRelease : {"undefined", "function"}, onReserve : {"undefined"}]

\* the option objects of a scenario with hooks that call back into P
HookedOptions ==
  [create : {"undefined", "shared"}, initialSize : {<<>>, <<1>>},
   onRelease : {"undefined", "function"},
   onReserve : {"undefined", "function"}]

\* the option objects of a scenario about what callers hold
HeldOptions ==
  [create : {"undefined", "shared"}, initialSize : InitialSizeOptions,
   onRelease : {"undefined", "function"}, onReserve : {"undefined"}]

\* the option objects of a scenario about names: valid, or rejected
NameOptions ==
  [create : {"undefined", "notFunction"}, initialSize : {<<>>},
   onRelease : {"undefined"}, onReserve : {"undefined"}]

NoOptions ==
  [create |-> "undefined", initialSize |-> <<>>,
   onRelease |-> "undefined", onReserve |-> "undefined"]

\* no operation yet
NoCall ==
  [op |-> "none", pool |-> "P", opts |-> NoOptions, arg |-> <<>>,
   ret |-> <<>>, error |-> "none", size |-> 0, free |-> FALSE, calls |-> 0,
   objs |-> <<>>, onRelease |-> 0, onReserve |-> 0]

NoPair == [kind |-> "none", entry |-> <<>>, size |-> 0, free |-> FALSE]

\* the pair that a call on P completes, given the call before it:
\* release(e) right after a reserve() that returned e, with the size that
\* reserve found and whether e was (still) in the free list when released;
\* or a reserve() right after a release(e) that returned, with whether e
\* was already in the free list when released
Pair(before, op, arg, free) ==
  IF before.pool = "P" /\ before.error = "none"
  THEN CASE before.op = "reserve" /\ op = "release" /\ arg = before.ret ->
              [kind |-> "release(reserve())", entry |-> arg,
               size |-> before.size, free |-> free]
         [] before.op = "release" /\ op = "reserve" ->
              [kind |-> "reserve after release", entry |-> before.arg,
               size |-> 0, free |-> before.free]
         [] OTHER -> NoPair
  ELSE NoPair

\* no prepopulated entries are being followed
NoPrepop == [created |-> <<>>, taken |-> <<>>]

\* the prepopulated entries once reserve() returned entry: followed until
\* as many entries were taken as the constructor created
PrepopReserve(pp, entry) ==
  IF Len(pp.taken) < Len(pp.created)
  THEN [pp EXCEPT !.taken = Append(pp.taken, entry)]
  ELSE NoPrepop

\* the reserve/release scenario is not running
LifoOff == [stage |-> "off", ab |-> <<>>, got |-> <<>>]

\* progress of the scenario after reserve() returned entry
LifoReserve(l, entry) ==
  CASE l.stage = "fresh" -> [l EXCEPT !.stage = "a", !.ab = <<entry>>]
    [] l.stage = "a" /\ entry # l.ab[1] ->
         [l EXCEPT !.stage = "ab", !.ab = Append(l.ab, entry)]
    [] l.stage = "released ab" ->
         [l EXCEPT !.stage = "got 1", !.got = <<entry>>]
    [] l.stage = "got 1" ->
         [l EXCEPT !.stage = "got 2", !.got = Append(l.got, entry)]
    [] OTHER -> LifoOff

\* progress of the scenario after release(entry) returned
LifoRelease(l, entry) ==
  CASE l.stage = "ab" /\ entry = l.ab[1] -> [l EXCEPT !.stage = "released a"]
    [] l.stage = "released a" /\ entry = l.ab[2] ->
         [l EXCEPT !.stage = "released ab"]
    [] OTHER -> LifoOff

\* nothing is held, populated or released yet
NoLedger ==
  [held |-> {}, populated |-> {}, released |-> {}, disciplined |-> TRUE]

\* the ledger after reserve() returned entry to a caller
LedgerReserve(l, entry) == [l EXCEPT !.held = @ \cup {entry}]

\* the ledger after release(entry), called by the caller holding entry or
\* by anyone else
LedgerRelease(l, entry, threw, byHolder) ==
  [l EXCEPT !.held = IF byHolder THEN @ \ {entry} ELSE @,
            !.released = IF threw THEN @ ELSE @ \cup {entry},
            !.disciplined = @ /\ byHolder]

\* the ledger after the constructor's or reset's loop pushed objs
LedgerPopulate(l, objs) == [l EXCEPT !.populated = @ \cup Range(objs)]

\* a value of the observer's variable after an operation on pool p
Observe(p, old, new) == IF p \in observed THEN new ELSE old

\* the entry the observer saw reset drop is among objs, which P's stack or
\* registry just received
Readded(objs) == dropped # <<>> /\ dropped[1] \in Range(objs)

(* ------------------------------- actions ------------------------------- *)

Start ==
  /\ DEV \in BOOLEAN
  /\ timeBasis = 0
  /\ heap = 0
  /\ pools = [p \in Pools |-> NoPool]
  /\ last = NoCall
  /\ pair = NoPair
  /\ made = [p \in Pools |-> {}]
  /\ dropped = <<>>
  /\ back = FALSE
  /\ prepop = NoPrepop
  /\ lifo = LifoOff
  /\ frames = <<>>
  /\ ledger = NoLedger

\* the observer follows P
Init == Start /\ observed = {"P"}

\* the observer follows no pool
InitTwo == Start /\ observed = {}

\* the observer follows the callers of P and what they hold
InitHeld == Start /\ observed = {"callers"}

\* p = new Nage(opts), for opts among options; the first pool constructed
\* is P, the second Q
Construct(p, options) ==
  /\ ~pools[p].built
  /\ p = "Q" => pools["P"].built
  /\ timeBasis < MaxConstructs
  /\ \E opts \in options :
     \E random \in {r \in Randoms : r = 0 \/ pools["P"].built} :
     \E c \in Constructed(opts, PoolName(timeBasis, random), DEV, heap) :
       LET ok == c.error = "none" IN
       /\ timeBasis' = timeBasis + 1
       /\ heap' = IF ok THEN heap + Allocated(c.pool.create, c.run) ELSE heap
       /\ pools' = [pools EXCEPT ![p] = IF ok THEN c.pool ELSE NoPool]
       /\ last' = [NoCall EXCEPT !.op = "construct", !.pool = p,
                                 !.opts = opts, !.error = c.error,
                                 !.calls = Calls(c.run), !.objs = c.run.objs]
       /\ made' = [made EXCEPT ![p] = IF ok THEN Range(c.run.objs) ELSE {}]
       /\ prepop' = Observe(p, prepop,
                            IF ok THEN [NoPrepop EXCEPT !.created = c.run.objs]
                            ELSE NoPrepop)
       /\ lifo' = Observe(p, lifo,
                          IF ok /\ c.run.objs = <<>>
                          THEN [LifoOff EXCEPT !.stage = "fresh"] ELSE LifoOff)
       /\ ledger' = Observe("callers", ledger,
                            IF ok THEN LedgerPopulate(NoLedger, c.run.objs)
                            ELSE NoLedger)
  /\ pair' = NoPair
  /\ UNCHANGED <<DEV, observed, dropped, back, frames>>

\* p.reserve()
Reserve(p) ==
  /\ pools[p].built
  /\ \E r \in Reserved(pools[p], heap) :
       /\ heap' = heap + Allocated(pools[p].create, r.run)
       /\ pools' = [pools EXCEPT ![p] = r.pool]
       /\ last' = [NoCall EXCEPT !.op = "reserve", !.pool = p, !.ret = r.ret,
                                 !.error = IF r.threw THEN FactoryError
                                           ELSE "none",
                                 !.size = Len(pools[p].stack),
                                 !.calls = Calls(r.run), !.objs = r.run.objs,
                                 !.onReserve = r.onReserve]
       /\ made' = [made EXCEPT ![p] = @ \cup Range(r.run.objs)]
       /\ back' = Observe(p, back, back \/ Readded(r.run.objs))
       /\ prepop' = Observe(p, prepop,
                            IF r.threw THEN NoPrepop
                            ELSE PrepopReserve(prepop, r.ret[1]))
       /\ lifo' = Observe(p, lifo,
                          IF r.threw THEN LifoOff
                          ELSE LifoReserve(lifo, r.ret[1]))
       /\ pair' = Observe(p, NoPair,
                          IF r.threw THEN NoPair
                          ELSE Pair(last, "reserve", <<>>, FALSE))
       /\ ledger' = Observe("callers", ledger,
                            IF r.threw THEN ledger
                            ELSE LedgerReserve(ledger, r.ret[1]))
  /\ UNCHANGED <<DEV, observed, timeBasis, dropped, frames>>

\* the objects a caller can pass to release: every object allocated so
\* far (reserve() returned it, or it is read from the public field
\* `stack`), the shared object and an object of the caller's own making
Reachable == (1..heap) \cup {SharedObj, ForeignObj}

\* p.release(entry)
Release(p, entry) ==
  /\ pools[p].built
  /\ LET r == Released(pools[p], entry)
         pushed == ~r.threw /\ r.pool.stack # pools[p].stack IN
     /\ pools' = [pools EXCEPT ![p] = r.pool]
     /\ last' = [NoCall EXCEPT !.op = "release", !.pool = p,
                               !.arg = <<entry>>,
                               !.error = IF r.threw THEN OwnershipError
                                         ELSE "none",
                               !.size = Len(pools[p].stack),
                               !.free = entry \in Range(pools[p].stack),
                               !.onRelease = r.onRelease]
     /\ back' = Observe(p, back, back \/ (pushed /\ Readded(<<entry>>)))
     /\ lifo' = Observe(p, lifo,
                        IF r.threw THEN LifoOff ELSE LifoRelease(lifo, entry))
     /\ pair' = Observe(p, NoPair,
                        IF r.threw THEN NoPair
                        ELSE Pair(last, "release", <<entry>>,
                                  entry \in Range(pools[p].stack)))
     /\ \E byHolder \in {b \in BOOLEAN : b => entry \in ledger.held} :
          ledger' = Observe("callers", ledger,
                            LedgerRelease(ledger, entry, r.threw, byHolder))
  /\ prepop' = Observe(p, prepop, NoPrepop)
  /\ UNCHANGED <<DEV, observed, timeBasis, heap, made, dropped, frames>>

\* p.reset()
Reset(p) ==
  /\ pools[p].built
  /\ \E r \in ResetDone(pools[p], heap) :
       /\ heap' = heap + Allocated(pools[p].create, r.run)
       /\ pools' = [pools EXCEPT ![p] = r.pool]
       /\ last' = [NoCall EXCEPT !.op = "reset", !.pool = p,
                                 !.error = IF r.threw THEN FactoryError
                                           ELSE "none",
                                 !.size = Len(pools[p].stack),
                                 !.calls = Calls(r.run), !.objs = r.run.objs]
       /\ made' = [made EXCEPT ![p] = @ \cup Range(r.run.objs)]
       /\ \E d \in {dropped} \cup {<<e>> : e \in Range(pools[p].stack)} :
            /\ dropped' = Observe(p, dropped, d)
            /\ back' = Observe(p, back,
                              IF d # <<>> /\ d[1] \in Range(pools[p].stack)
                              THEN d[1] \in Range(r.run.objs)
                              ELSE back \/ (d # <<>> /\ d[1] \in Range(r.run.objs)))
       /\ ledger' = Observe("callers", ledger,
                            LedgerPopulate(ledger, r.run.objs))
  /\ prepop' = Observe(p, prepop, NoPrepop)
  /\ lifo' = Observe(p, lifo, LifoOff)
  /\ pair' = NoPair
  /\ UNCHANGED <<DEV, observed, timeBasis, frames>>

\* what the operations below leave alone: the observers follow no pool
\* while hooks call back
Unobserved == <<DEV, observed, timeBasis, dropped, back, pair, prepop, lifo,
                ledger>>

\* P.release(entry) up to the call of onRelease: the ownership test, the
\* indexOf test, and then either the push (no hook is configured) or the
\* hook, which starts running. The caller is the program, or the hook of
\* the innermost call in progress.
ReleaseCall(entry) ==
  LET pl == pools["P"] IN
  /\ pl.built
  /\ Len(frames) < MaxDepth
  /\ LET threw == NotPartOfPool(pl, entry)
         absent == IndexOf(pl.stack, entry) = -1
         hook == ~threw /\ absent /\ pl.onRelease IN
     /\ frames' = IF hook
                   THEN Append(frames, [op |-> "release", entry |-> entry])
                   ELSE frames
     /\ pools' = IF ~threw /\ absent /\ ~hook
                  THEN [pools EXCEPT !["P"].stack = Push(pl.stack, entry)]
                  ELSE pools
     /\ last' = [NoCall EXCEPT !.op = "release", !.arg = <<entry>>,
                               !.error = IF threw THEN OwnershipError
                                         ELSE "none",
                               !.size = Len(pl.stack),
                               !.free = entry \in Range(pl.stack),
                               !.onRelease = IF hook THEN 1 ELSE 0]
  /\ UNCHANGED <<heap, made>>
  /\ UNCHANGED Unobserved

\* P.reserve() up to the call of onReserve: the pop or generate(), and
\* then either the return (no hook is configured) or the hook, which
\* starts running
ReserveCall ==
  LET pl == pools["P"] IN
  /\ pl.built
  /\ Len(frames) < MaxDepth
  /\ \E r \in Reserved(pl, heap) :
       LET hook == ~r.threw /\ pl.onReserve IN
       /\ heap + Allocated(pl.create, r.run) <= MaxHookObjects
       /\ heap' = heap + Allocated(pl.create, r.run)
       /\ pools' = [pools EXCEPT !["P"] = r.pool]
       /\ made' = [made EXCEPT !["P"] = @ \cup Range(r.run.objs)]
       /\ frames' = IF hook
                     THEN Append(frames, [op |-> "reserve", entry |-> r.ret[1]])
                     ELSE frames
       /\ last' = [NoCall EXCEPT !.op = "reserve",
                                 !.ret = IF hook THEN <<>> ELSE r.ret,
                                 !.error = IF r.threw THEN FactoryError
                                           ELSE "none",
                                 !.size = Len(pl.stack),
                                 !.calls = Calls(r.run), !.objs = r.run.objs,
                                 !.onReserve = r.onReserve]
  /\ UNCHANGED Unobserved

\* the return of the hook, had release pushed before calling onRelease
HookReturnPushed ==
  /\ frames # <<>>
  /\ LET f == frames[Len(frames)] IN
     /\ frames' = SubSeq(frames, 1, Len(frames) - 1)
     /\ pools' = pools
     /\ last' = [NoCall EXCEPT !.op = "hook returned", !.arg = <<f.entry>>,
                               !.ret = IF f.op = "reserve" THEN <<f.entry>>
                                       ELSE <<>>,
                               !.size = Len(pools["P"].stack)]
  /\ UNCHANGED <<heap, made>>
  /\ UNCHANGED Unobserved

\* the hook of the innermost call in progress returns: release goes on to
\* stack.push(entry), reserve to return reserved
HookReturn ==
  /\ frames # <<>>
  /\ LET f == frames[Len(frames)] IN
     /\ frames' = SubSeq(frames, 1, Len(frames) - 1)
     /\ pools' = IF f.op = "release"
                  THEN [pools EXCEPT !["P"].stack = Push(@, f.entry)]
                  ELSE pools
     /\ last' = [NoCall EXCEPT !.op = "hook returned", !.arg = <<f.entry>>,
                               !.ret = IF f.op = "reserve" THEN <<f.entry>>
                                       ELSE <<>>,
                               !.size = Len(pools["P"].stack)]
  /\ UNCHANGED <<heap, made>>
  /\ UNCHANGED Unobserved

\* the hook of the innermost call in progress throws, or lets an error of
\* a call it made pass: the call in progress ends there, release without
\* its push and reserve without returning
HookThrow ==
  /\ frames # <<>>
  /\ frames' = SubSeq(frames, 1, Len(frames) - 1)
  /\ last' = [NoCall EXCEPT !.op = "hook threw",
                            !.arg = <<frames[Len(frames)].entry>>,
                            !.error = "hook threw",
                            !.size = Len(pools["P"].stack)]
  /\ UNCHANGED <<heap, made, pools>>
  /\ UNCHANGED Unobserved

\* one pool, constructed with any options
Next ==
  \/ Construct("P", Options)
  \/ Reserve("P")
  \/ \E entry \in Reachable : Release("P", entry)
  \/ Reset("P")

Spec == Init /\ [][Next]_vars

\* two pools in one process
NextTwo ==
  \/ \E p \in Pools : Construct(p, FewOptions)
  \/ \E p \in Pools : Reserve(p)
  \/ \E p \in Pools : \E entry \in Reachable : Release(p, entry)
  \/ \E p \in Pools : Reset(p)

SpecTwo == InitTwo /\ [][NextTwo]_vars

\* two pools in one process, with constructions that fail validation
NextNames ==
  \/ \E p \in Pools : Construct(p, NameOptions)
  \/ \E p \in Pools : Reserve(p)
  \/ \E p \in Pools : \E entry \in Reachable : Release(p, entry)
  \/ \E p \in Pools : Reset(p)

SpecNames == InitTwo /\ [][NextNames]_vars

\* one pool whose hooks can call release, reserve and reset on it
NextHooked ==
  \/ Construct("P", HookedOptions)
  \/ \E entry \in Reachable : ReleaseCall(entry)
  \/ ReserveCall
  \/ Reset("P")
  \/ HookReturn
  \/ HookThrow

SpecHooked == InitTwo /\ [][NextHooked]_vars

\* one pool and its callers
NextHeld ==
  \/ Construct("P", HeldOptions)
  \/ Reserve("P")
  \/ \E entry \in Reachable : Release("P", entry)
  \/ Reset("P")

SpecHeld == InitHeld /\ [][NextHeld]_vars

(* ------------------------------ properties ----------------------------- *)

\* get size(): this.stack.length
Size(p) == Len(pools[p].stack)

\* the free list of pool p
Stack(p) == pools[p].stack

\* the step is a call of p.release(x), p.reserve() or p.reset(): every
\* action writes what was called into last
ReleaseStep(p, x) ==
  last'.op = "release" /\ last'.pool = p /\ last'.arg = <<x>>
ReserveStep(p) == last'.op = "reserve" /\ last'.pool = p
ResetStep(p) == last'.op = "reset" /\ last'.pool = p

\* C1: P.release(x) throws whenever x was not manufactured by P (another
\* pool manufactured it, or no pool did); the failing call invokes no hook
\* and leaves P's free list, and so its size, as they were.
C1_ForeignReleaseThrows ==
  [][\A p \in Pools : \A x \in Objs \ made[p] :
       ReleaseStep(p, x) =>
         /\ last'.error = OwnershipError
         /\ last'.onRelease = 0 /\ last'.onReserve = 0
         /\ Stack(p)' = Stack(p)
         /\ Size(p)' = Size(p)]_vars

\* P, built with an onRelease hook and holding free entries, has just
\* thrown on the release of an entry that Q manufactured
C1_Witness ==
  /\ last.op = "release" /\ last.pool = "P" /\ last.error = OwnershipError
  /\ last.arg[1] \in made["Q"] \ made["P"]
  /\ pools["P"].onRelease
  /\ Size("P") > 0

\* C2: once pool p has manufactured e (in its constructor, in reserve or in
\* reset), p.release(e) raises no ownership error in any later state,
\* whatever resets came in between.
C2_OwnEntriesAccepted ==
  /\ \A p \in Pools : \A e \in made[p] :
       pools[p].built => ~Released(pools[p], e).threw
  /\ (last.op = "release" /\ last.arg[1] \in made[last.pool])
       => last.error = "none"

\* the entry that reset dropped from the free list has just been released
\* again, without error
C2_Witness ==
  /\ last.op = "release" /\ last.pool = "P" /\ last.error = "none"
  /\ dropped # <<>> /\ last.arg = dropped

\* C3: release(e) of an entry already in the free list changes nothing and
\* does not call onRelease; so two releases of e in a row raise size by at
\* most one and call onRelease at most once.
C3_DuplicateReleaseNoOp ==
  [][\A x \in Objs :
       /\ (ReleaseStep("P", x) /\ x \in Range(Stack("P"))) =>
            /\ last'.error = "none"
            /\ Stack("P")' = Stack("P")
            /\ last'.onRelease = 0
       /\ (/\ last.op = "release" /\ last.pool = "P" /\ last.error = "none"
           /\ last.arg = <<x>>
           /\ ReleaseStep("P", x)) =>
            /\ Size("P")' <= last.size + 1
            /\ last.onRelease + last'.onRelease <= 1]_vars

\* P has an onRelease hook and two free entries, and the release of the one
\* that is not on top has just returned without calling the hook
C3_Witness ==
  /\ last.op = "release" /\ last.pool = "P" /\ last.error = "none"
  /\ last.free /\ last.onRelease = 0 /\ pools["P"].onRelease
  /\ Size("P") = 2 /\ last.size = 2
  /\ last.arg[1] = Stack("P")[1] /\ Stack("P")[1] # Stack("P")[2]

\* C4 as stated: release(reserve()) leaves size as it was before the pair,
\* in every reachable state.
C4_Original ==
  pair.kind = "release(reserve())" => Size("P") = pair.size

\* C4, amended: release(reserve()) leaves size as it was when the free list
\* was not empty and held its top entry once; on an empty free list the pair
\* leaves size 1, the manufactured entry being free now; and when the top
\* entry occurs twice in the free list the pair lowers size by one.
C4_RoundTripSize ==
  pair.kind = "release(reserve())" =>
    /\ last.error = "none"
    /\ Size("P") = IF pair.size = 0 THEN 1
                   ELSE IF pair.free THEN pair.size - 1
                   ELSE pair.size

\* release(reserve()) has just been done on a free list that was not empty,
\* and the size is what it was
C4_Witness ==
  /\ pair.kind = "release(reserve())" /\ pair.size >= 1 /\ ~pair.free
  /\ last.op = "release" /\ last.arg = pair.entry
  /\ Size("P") = pair.size

\* C5: the free list is LIFO. reserve() on a non-empty free list removes
\* and returns its top entry, and every entry added (by release, by the
\* constructor's prepopulation or by reset) goes on top; and on a pool
\* constructed without prepopulation, after reserving a then b and
\* releasing a then b, the next two reserve() calls return b then a.
C5_Lifo ==
  [][/\ (ReserveStep("P") /\ Stack("P") # <<>>) =>
          /\ last'.error = "none"
          /\ last'.ret = <<Stack("P")[Size("P")]>>
          /\ Stack("P")' = SubSeq(Stack("P"), 1, Size("P") - 1)
     /\ \A x \in Objs \ Range(Stack("P")) :
          (ReleaseStep("P", x) /\ last'.error = "none") =>
            Stack("P")' = Append(Stack("P"), x)
     /\ ((ResetStep("P") \/ (last'.op = "construct" /\ last'.pool = "P"))
           /\ last'.error = "none") =>
          Stack("P")' = last'.objs
     /\ lifo'.stage \in {"got 1", "got 2"} => lifo'.got[1] = lifo'.ab[2]
     /\ lifo'.stage = "got 2" => lifo'.got[2] = lifo'.ab[1]]_vars

\* the scenario has run to its end: reserve a, reserve b, release a,
\* release b, and two more reserve() calls that returned b, then a
C5_Witness ==
  /\ lifo.stage = "got 2"
  /\ lifo.ab[1] # lifo.ab[2]
  /\ lifo.got = <<lifo.ab[2], lifo.ab[1]>>

\* C6 as stated: whenever release(e) returned without error, the very next
\* reserve() returns e and does not call the factory.
C6_Original ==
  pair.kind = "reserve after release" =>
    last.ret = pair.entry /\ last.calls = 0

\* C6, amended: whenever release(e) returned without error for an entry e
\* that was not already in the free list, the very next reserve() returns e
\* and does not call the factory.
C6_ReleasedEntryReservedNext ==
  (pair.kind = "reserve after release" /\ ~pair.free) =>
    /\ last.error = "none"
    /\ last.ret = pair.entry
    /\ last.calls = 0

\* reserve() has just returned the entry released right before it, from a
\* free list of two entries
C6_Witness ==
  /\ pair.kind = "reserve after release" /\ ~pair.free
  /\ last.op = "reserve" /\ last.ret = pair.entry /\ last.size = 2

C8_Original ==
  pools["P"].create # "shared" =>
    ~(/\ last.op = "reserve" /\ last.pool = "P" /\ last.error = "none"
      /\ dropped # <<>> /\ last.ret = dropped)

\* C8, amended: an entry that was in the free list when reset was called is
\* not in the free list and is not returned by reserve() until it is
\* released to the pool again, or returned again by the factory.
C8_DroppedUntilReleasedAgain ==
  /\ (dropped # <<>> /\ ~back) => dropped[1] \notin Range(Stack("P"))
  /\ (/\ last.op = "reserve" /\ last.pool = "P" /\ last.error = "none"
      /\ dropped # <<>> /\ last.ret = dropped) => back

\* after a reset that dropped an entry, reserve() has just returned another
\* entry, the dropped one not having come back
C8_Witness ==
  /\ last.op = "reserve" /\ last.pool = "P" /\ last.error = "none"
  /\ dropped # <<>> /\ ~back /\ last.ret # dropped
  /\ pools["P"].create # "shared"

C12_Original ==
  /\ (/\ last.op = "construct" /\ DEV
      /\ \/ last.opts.onRelease \in {"truthy", "falsy"}
         \/ last.opts.onReserve \in {"truthy", "falsy"}) =>
       last.error \in {CreateError, OnReleaseError, OnReserveError}
  /\ (last.op = "construct" /\ ~DEV) =>
       /\ last.error \notin {OnReleaseError, OnReserveError}
       /\ (last.error = "none" /\ ~IsFunction(last.opts.onRelease)) =>
            ~pools[last.pool].onRelease
       /\ (last.error = "none" /\ ~IsFunction(last.opts.onReserve)) =>
            ~pools[last.pool].onReserve
  /\ \A p \in Pools :
       /\ (last.pool = p /\ ~pools[p].onRelease) => last.onRelease = 0
       /\ (last.pool = p /\ ~pools[p].onReserve) => last.onReserve = 0

\* C13 as stated: a call of release, reserve or reset that raises the
\* ownership error or passes on a failure of the create function leaves
\* the pool's free list and registry as they were before the call.
C13_Original ==
  [][\A p \in Pools :
       (/\ last'.pool = p
        /\ last'.op \in {"release", "reserve", "reset"}
        /\ last'.error \in {OwnershipError, FactoryError}) =>
         /\ pools[p].stack' = pools[p].stack
         /\ pools[p].entries' = pools[p].entries]_vars

\* C15: with a factory that returns a distinct object on each call, no
\* entry appears more than once in the free list, whatever sequence of
\* construct, reserve, release and reset calls was made.
C15_NoDuplicates ==
  \A p \in Pools :
    (pools[p].built /\ pools[p].create \in {"getEmptyObject", "flaky"}) =>
      \A i, j \in 1..Size(p) : i # j => Stack(p)[i] # Stack(p)[j]

\* after a reset, a pool with a factory of distinct objects holds two free
\* entries, and a release of one of them has just returned
C15_Witness ==
  /\ last.op = "release" /\ last.pool = "P" /\ last.error = "none"
  /\ last.free /\ dropped # <<>>
  /\ pools["P"].create \in {"getEmptyObject", "flaky"}
  /\ Size("P") >= 2

\* C16: every entry in a pool's free list is registered in that pool's
\* registry under the pool's own name.
C16_FreeEntriesRegistered ==
  \A p \in Pools : \A i \in 1..Size(p) :
    /\ pools[p].name # Undefined
    /\ pools[p].entries[Stack(p)[i]] = pools[p].name

\* the free list holds a prepopulated entry and, above it, an entry that
\* reserve manufactured and release has just pushed
C16_Witness ==
  /\ last.op = "release" /\ last.pool = "P" /\ last.error = "none"
  /\ ~last.free /\ Size("P") >= 2
  /\ Stack("P")[Size("P")] = last.arg[1]
  /\ Stack("P")[1] # last.arg[1]

\* C17: two pools constructed in one process have different names, whatever
\* the random components are, because every construction, one that fails
\* validation included, adds one to the counter that goes into the name;
\* and release on P throws for an entry that only Q registered.
C17_DistinctNames ==
  [][/\ last'.op = "construct" => timeBasis' = timeBasis + 1
     /\ (pools["P"].built /\ pools["Q"].built)' =>
          /\ pools["P"].name' # pools["Q"].name'
          /\ pools["P"].name'[1] # pools["Q"].name'[1]
     /\ \A p, q \in Pools : \A e \in Objs :
          (/\ p # q /\ pools[p].built' /\ pools[q].built'
           /\ pools[q].entries'[e] = pools[q].name'
           /\ pools[p].entries'[e] = Undefined) =>
            Released(pools[p]', e).threw]_vars

\* P and Q drew the same random component, a construction failed between
\* theirs, and P has just thrown on the release of an entry of Q
C17_Witness ==
  /\ pools["P"].built /\ pools["Q"].built
  /\ pools["P"].name[2] = pools["Q"].name[2]
  /\ pools["Q"].name[1] = pools["P"].name[1] + 2
  /\ last.op = "release" /\ last.pool = "P" /\ last.error = OwnershipError
  /\ last.arg[1] \in made["Q"]

\* C14 as stated: size is at least 0 and at most the number of entries the
\* pool has created minus the number of those that were never released.
\* (Not held against the claim: a factory that returns one object twice.)
C14_Original ==
  (pools["P"].built /\ pools["P"].create # "shared") =>
    /\ Size("P") >= 0
    /\ Size("P") <= Cardinality(made["P"])
                      - Cardinality(made["P"] \ ledger.released)

\* C14, amended: with a factory that returns a distinct object on each
\* call, size is at least 0 and at most the number of entries the pool has
\* created minus the number of those that were never on the free list:
\* the entries reserve() manufactured that no release has accepted yet.
\* Entries the constructor or reset pushed count as free without a release.
C14_SizeBound ==
  (pools["P"].built /\ pools["P"].create # "shared") =>
    /\ Size("P") >= 0
    /\ Size("P") <= Cardinality(made["P"])
                      - Cardinality(made["P"] \ (ledger.populated
                                                  \cup ledger.released))
    /\ Range(Stack("P")) \subseteq ledger.populated \cup ledger.released

\* the bound is met with equality by a free list of a prepopulated entry
\* that was never released and an entry that reserve() manufactured and a
\* release pushed, while another manufactured entry was never released
C14_Witness ==
  /\ pools["P"].built /\ pools["P"].create # "shared"
  /\ Size("P") = 2
  /\ Cardinality(made["P"]) = 3
  /\ Cardinality(made["P"] \ (ledger.populated \cup ledger.released)) = 1
  /\ ledger.populated \ ledger.released # {}
  /\ last.op = "release" /\ last.error = "none" /\ ~last.free

\* C18: with a factory that returns a distinct object on each call, and as
\* long as every release was made by the caller holding the entry, no entry
\* is at once in the free list and held by a caller, and reserve() does not
\* return an entry that a caller holds.
C18_ExclusiveHolding ==
  [][(ledger'.disciplined /\ pools["P"].built'
        /\ pools["P"].create' # "shared") =>
       /\ ledger'.held \cap Range(Stack("P")') = {}
       /\ (ReserveStep("P") /\ last'.error = "none") =>
            last'.ret[1] \notin ledger.held]_vars

\* two entries are held, one of them released by its holder and reserved
\* again since, and a third entry is free; every release so far was made by
\* the holder of the entry
C18_Witness ==
  /\ ledger.disciplined /\ pools["P"].create # "shared"
  /\ Cardinality(ledger.held) = 2
  /\ ledger.held \cap ledger.released # {}
  /\ Size("P") = 1
  /\ last.op = "reserve" /\ last.error = "none" /\ last.size = 2

\* the calls in progress that were already so before the step, the
\* outermost first
Running == 1..(IF Len(frames') < Len(frames) THEN Len(frames')
               ELSE Len(frames))

\* C11 as stated: while a hook runs, the entry it received is not in the
\* free list, and a reserve() called from inside onRelease(e) does not
\* return e. (Not held against the claim: a factory that returns one
\* object twice.)
C11_Original ==
  (pools["P"].built /\ pools["P"].create # "shared") =>
    /\ \A i \in 1..Len(frames) : frames[i].entry \notin Range(Stack("P"))
    /\ (last.op = "hook returned" /\ last.ret # <<>>) =>
         \A i \in 1..Len(frames) :
            frames[i].op = "release" => frames[i].entry # last.ret[1]
    /\ (last.op = "reserve" /\ last.ret # <<>>) =>
         \A i \in 1..Len(frames) :
            frames[i].op = "release" => frames[i].entry # last.ret[1]

\* C11, amended: onReserve is called once per reserve(), with the entry
\* that was just taken off the top of the free list or manufactured, and
\* reserve returns that entry when the hook returns; onRelease is called
\* once per release(e) of an entry that is not in the free list, and e is
\* pushed when the hook returns; a release of a free entry calls no hook.
\* While a hook runs, the entry it received enters the free list only by a
\* release of that entry nested in the hook, or by the factory returning
\* that object again; and a reserve() nested in onRelease(e) returns e only
\* after e entered the free list that way, or from the factory.
C11_HookOrdering ==
  [][LET pl == pools["P"]
         top == frames'[Len(frames')]
         began == Len(frames') = Len(frames) + 1
         ended == Len(frames') = Len(frames) - 1 /\ last'.op = "hook returned"
     IN
     /\ (last'.op = "reserve" /\ last'.error = "none") =>
          /\ began <=> pl.onReserve
          /\ last'.onReserve = (IF pl.onReserve THEN 1 ELSE 0)
          /\ began =>
               /\ top.op = "reserve"
               /\ IF Stack("P") = <<>>
                  THEN top.entry \in Range(last'.objs) /\ Stack("P")' = <<>>
                  ELSE /\ top.entry = Stack("P")[Size("P")]
                       /\ Stack("P")' = SubSeq(Stack("P"), 1, Size("P") - 1)
     /\ (last'.op = "release" /\ last'.error = "none") =>
          /\ began <=> (pl.onRelease /\ ~last'.free)
          /\ last'.onRelease = (IF began THEN 1 ELSE 0)
          /\ began =>
               /\ top = [op |-> "release", entry |-> last'.arg[1]]
               /\ Stack("P")' = Stack("P")
               /\ top.entry \notin Range(Stack("P")')
     /\ ended =>
          LET f == frames[Len(frames)] IN
          IF f.op = "release"
          THEN Stack("P")' = Append(Stack("P"), f.entry) /\ last'.ret = <<>>
          ELSE Stack("P")' = Stack("P") /\ last'.ret = <<f.entry>>
     /\ \A i \in Running :
          (/\ frames[i].entry \notin Range(Stack("P"))
           /\ frames[i].entry \in Range(Stack("P")')) =>
            \/ last'.op \in {"release", "hook returned"}
                 /\ last'.arg = <<frames[i].entry>>
            \/ frames[i].entry \in Range(last'.objs)
     /\ \A i \in Running :
          (/\ frames[i].op = "release"
           /\ \/ last'.op = "reserve" /\ began
              \/ last'.op = "reserve" /\ last'.ret # <<>>
           /\ frames[i].entry \in
                 (IF began THEN {top.entry} ELSE Range(last'.ret))) =>
            \/ frames[i].entry \in Range(Stack("P"))
            \/ frames[i].entry \in Range(last'.objs)]_vars

\* onRelease(e) is running, on hold while a reserve() it made is inside
\* onReserve with another entry, and e is not in the free list
C11_Witness ==
  /\ Len(frames) = 2
  /\ frames[1].op = "release" /\ frames[2].op = "reserve"
  /\ frames[1].entry # frames[2].entry
  /\ frames[1].entry \notin Range(Stack("P"))
  /\ last.op = "reserve" /\ last.onReserve = 1 /\ last.size >= 1

\* C19 as stated: the free list holds no entry twice, also when a hook
\* calls release, reserve or reset on the pool while the outer call is in
\* progress. (Not held against the claim: a factory that returns one
\* object twice.)
C19_Original ==
  (pools["P"].built /\ pools["P"].create # "shared") =>
    \A i, j \in 1..Size("P") : i # j => Stack("P")[i] # Stack("P")[j]

====
